---- MODULE Spec2Model ----
(***************************************************************************)
(* Model of the concurrency examples of rust-learning-ch16:                *)
(*   chapter161.rs  spawn_thread, waiting_thread, handle_thread            *)
(*   chapter162.rs  move_channel, recover_channel                          *)
(*   chapter163.rs  call_mutex, atom_ref                                   *)
(* One behaviour of Spec is one call of one of these functions (prog),     *)
(* with the driver (the calling thread) and the units it spawns            *)
(* interleaved step by step.  prog = "channel_law" is the channel used by  *)
(* one Sender and one Receiver for k messages, as the specification's      *)
(* FIFO / close laws describe it; it runs on the same send and recv        *)
(* operators as the two channel functions of chapter162.rs.                *)
(* prog = "guard_law" is a Mutex whose holders may fail inside the         *)
(* critical section, as the specification's Guarded Shared Counter         *)
(* describes it; it runs on the same lock operators as chapter163.rs.      *)
(***************************************************************************)
EXTENDS Naturals, Integers, Sequences, FiniteSets, TLC

\* chapter163.rs:66  for _ in 0..10
NumThreads == 10
\* chapter161.rs:55 / :80  for i in 1..10 (exclusive upper end)
SpawnedEnd == 10
\* chapter161.rs:61 / :86  for i in 1..5 (exclusive upper end)
MainEnd == 5
\* chapter163.rs:17  Mutex::new(5)
MInit == 5
\* chapter163.rs:21  *num = 6
MSet == 6

\* Bound of the channel law: at most MaxMsgs messages are sent.
MaxMsgs == 3
\* Bound of the guard law: at most MaxLawUnits units take the lock.
MaxLawUnits == 3

Units == 1..NumThreads
Msgs == {"hi", "m2"}
Programs == {"spawn_thread", "waiting_thread", "handle_thread",
             "move_channel", "recover_channel", "call_mutex", "atom_ref",
             "channel_law", "guard_law"}

RECURSIVE SeqsUpTo(_)
SeqsUpTo(k) == IF k = 0 THEN {<<>>}
               ELSE LET S == SeqsUpTo(k - 1)
                    IN  S \cup {Append(s, x) : s \in {t \in S : Len(t) = k - 1}, x \in Msgs}

VARIABLES
  prog,      \* the function that was called
  n,         \* atom_ref: number of units the spawn loop creates
  mpc,       \* position of the driver (the calling thread)
  mi,        \* the driver's loop variable
  upc,       \* upc[u]: position of spawned unit u
  ui,        \* loop variable i of the spawned closure (chapter161.rs)
  out,       \* lines printed so far, in print order
  exited,    \* the process has ended (the caller's main returned)
  handles,   \* JoinHandles the driver still owns (unit ids, in push order)
  joined,    \* units whose join() has returned
  vOwner,    \* handle_thread: who owns the vector v
  tx,        \* the Sender is alive
  rx,        \* the Receiver is alive
  chan,      \* the channel's buffer
  val,       \* local val of the sending closure
  sent,      \* messages whose send returned Ok, in order
  delivered, \* messages recv returned, in order
  received,  \* recover_channel: local received
  input,     \* channel_law: the messages m1..mk to send
  recvErr,   \* a recv returned Err(RecvError)
  sendErr,   \* a send returned Err(SendError)
  locked,    \* the Mutex is held
  poisoned,  \* the Mutex is poisoned
  counter,   \* value inside the Mutex (m in call_mutex, counter in atom_ref)
  strong,    \* Arc strong count of counter
  num,       \* num[u]: value unit u read through its guard
  result     \* value the driver read through its final guard

vars == <<prog, n, mpc, mi, upc, ui, out, exited, handles, joined, vOwner,
          tx, rx, chan, val, sent, delivered, received, input, recvErr,
          sendErr, locked, poisoned, counter, strong, num, result>>

thrVars  == <<handles, joined, vOwner>>
chanVars == <<tx, rx, chan, val, sent, delivered, received, recvErr, sendErr>>
lockVars == <<locked, poisoned, counter, strong, num, result>>

Line(tag, v) == [tag |-> tag, v |-> v]

Init ==
  /\ prog \in Programs
  /\ n \in IF prog = "atom_ref" THEN 0..NumThreads
          ELSE IF prog = "guard_law" THEN 0..MaxLawUnits ELSE {0}
  /\ input \in IF prog = "channel_law" THEN SeqsUpTo(MaxMsgs) ELSE {<<>>}
  /\ mpc = "start"
  /\ mi = 0
  /\ upc = [u \in Units |-> "unspawned"]
  /\ ui = 0
  /\ out = <<>>
  /\ exited = FALSE
  /\ handles = <<>>
  /\ joined = {}
  /\ vOwner = "none"
  /\ tx = FALSE
  /\ rx = FALSE
  /\ chan = <<>>
  /\ val = "none"
  /\ sent = <<>>
  /\ delivered = <<>>
  /\ received = "none"
  /\ recvErr = FALSE
  /\ sendErr = FALSE
  /\ locked = FALSE
  /\ poisoned = FALSE
  /\ counter = 0
  /\ strong = 0
  /\ num = [u \in Units |-> 0]
  /\ result = 0

----------------------------------------------------------------------------
(* Standard-library operations as the functions use them.                  *)

\* A unit that has ended, normally or by panic.
Finished(u) == upc[u] \in {"done", "panicked"}

\* Faulty variant: a join that returns at once.
JoinNoWait(u) == TRUE
\* handle.join() returns only when the unit has ended.
JoinReady(u) == Finished(u)

\* handle.join(): Err if the unit panicked, Ok otherwise.
JoinOk(u) == upc[u] # "panicked"

\* Faulty variant: a send that never fails.
SendAlwaysOk(rxAlive) == FALSE
\* tx.send(v) fails exactly when the Receiver has been dropped.
SendFails(rxAlive) == ~rxAlive

\* send appends the message at the tail of the buffer.
Enqueue(q, m) == Append(q, m)

\* Faulty variants: a recv that never waits, and one that waits for a
\* message even when every Sender is gone.
RecvNoWait(q, txAlive) == TRUE
RecvNeverClosed(q, txAlive) == q # <<>>
\* rx.recv() blocks while the buffer is empty and a Sender is alive.
RecvReady(q, txAlive) == q # <<>> \/ ~txAlive

\* rx.recv() returns Ok(message) when the buffer holds one, Err otherwise.
RecvOk(q) == q # <<>>

\* Faulty variant: recv returns the newest message.
RecvNewest(q) == q[Len(q)]
\* The message recv returns: the oldest one.
RecvMsg(q) == Head(q)

\* Faulty variant: recv leaves its message in the buffer.
RecvKeep(q) == q
\* The buffer after recv has taken its message.
RecvRest(q) == Tail(q)

\* Faulty variant: a lock that never waits.
LockNoWait(l) == TRUE
\* m.lock() blocks while another guard is alive.
LockReady(l) == ~l

\* Faulty variant: a lock that does not report poisoning.
LockIgnoresPoison(pz) == FALSE
\* m.lock() returns Err(PoisonError) when the Mutex is poisoned.
LockErr(pz) == pz

\* Faulty variant: taking the guard leaves the lock free.
GuardNotHeld == FALSE
\* The lock flag while a guard is alive.
GuardHeld == TRUE

\* *num += 1 stores the value read plus one.
Incr(x) == x + 1

----------------------------------------------------------------------------
(* chapter161.rs                                                           *)

\* Body of `for i in 1..10 { println!(..); thread::sleep(..) }` of a closure.
UnitLoopPrint(p, u) ==
  /\ prog = p /\ ~exited
  /\ upc[u] = "loop"
  /\ IF ui < SpawnedEnd
       THEN /\ out' = Append(out, Line("spawned", ui))
            /\ upc' = [upc EXCEPT ![u] = "sleep"]
       ELSE /\ out' = out
            /\ upc' = [upc EXCEPT ![u] = "done"]
  /\ UNCHANGED <<prog, n, mpc, mi, ui, exited, thrVars, chanVars, input, lockVars>>

UnitLoopSleep(p, u) ==
  /\ prog = p /\ ~exited
  /\ upc[u] = "sleep"
  /\ ui' = ui + 1
  /\ upc' = [upc EXCEPT ![u] = "loop"]
  /\ UNCHANGED <<prog, n, mpc, mi, out, exited, thrVars, chanVars, input, lockVars>>

\* Body of `for i in 1..5 { println!(..); thread::sleep(..) }` of the driver;
\* after the loop the driver goes on to `after`.
MainLoopPrint(p, after) ==
  /\ prog = p /\ ~exited
  /\ mpc = "loop"
  /\ IF mi < MainEnd
       THEN /\ out' = Append(out, Line("main", mi))
            /\ mpc' = "sleep"
       ELSE /\ out' = out
            /\ mpc' = after
  /\ UNCHANGED <<prog, n, mi, upc, ui, exited, thrVars, chanVars, input, lockVars>>

MainLoopSleep(p) ==
  /\ prog = p /\ ~exited
  /\ mpc = "sleep"
  /\ mi' = mi + 1
  /\ mpc' = "loop"
  /\ UNCHANGED <<prog, n, upc, ui, out, exited, thrVars, chanVars, input, lockVars>>

\* spawn_thread: thread::spawn(..); the JoinHandle is dropped at once.
SpawnThreadSpawn ==
  /\ prog = "spawn_thread" /\ ~exited
  /\ mpc = "start"
  /\ upc' = [upc EXCEPT ![1] = "loop"]
  /\ ui' = 1
  /\ mi' = 1
  /\ mpc' = "loop"
  /\ UNCHANGED <<prog, n, out, exited, thrVars, chanVars, input, lockVars>>

SpawnThreadUnitPrint == UnitLoopPrint("spawn_thread", 1)
SpawnThreadUnitSleep == UnitLoopSleep("spawn_thread", 1)
\* Faulty variant: after its loop spawn_thread waits for the unit to end.
SpawnThreadWaits ==
  MainLoopPrint("spawn_thread", "returned") /\ (mi < MainEnd \/ Finished(1))
\* spawn_thread returns when its loop ends: there is no join.
SpawnThreadMainPrint == MainLoopPrint("spawn_thread", "returned")
SpawnThreadMainSleep == MainLoopSleep("spawn_thread")

\* waiting_thread: let handle = thread::spawn(..)
WaitingThreadSpawn ==
  /\ prog = "waiting_thread" /\ ~exited
  /\ mpc = "start"
  /\ upc' = [upc EXCEPT ![1] = "loop"]
  /\ ui' = 1
  /\ mi' = 1
  /\ mpc' = "loop"
  /\ handles' = <<1>>
  /\ UNCHANGED <<prog, n, out, exited, joined, vOwner, chanVars, input, lockVars>>

\* Faulty variant: the closure prints only once the driver's loop is over.
WaitingThreadUnitPrintLate == UnitLoopPrint("waiting_thread", 1) /\ mpc = "join"
WaitingThreadUnitPrint == UnitLoopPrint("waiting_thread", 1)
WaitingThreadUnitSleep == UnitLoopSleep("waiting_thread", 1)
\* Faulty variant: waiting_thread returns after its loop, without the join.
WaitingThreadNoJoin == MainLoopPrint("waiting_thread", "returned")
\* After its loop waiting_thread goes on to handle.join().
WaitingThreadMainPrint == MainLoopPrint("waiting_thread", "join")
WaitingThreadMainSleep == MainLoopSleep("waiting_thread")

\* handle.join().unwrap() as the last statement of the driver p.
JoinUnwrapReturn(p) ==
  /\ prog = p /\ ~exited
  /\ mpc = "join"
  /\ handles # <<>>
  /\ JoinReady(Head(handles))
  /\ IF JoinOk(Head(handles))
       THEN /\ joined' = joined \cup {Head(handles)}
            /\ mpc' = "returned"
       ELSE /\ joined' = joined
            /\ mpc' = "panicked"
  /\ handles' = Tail(handles)
  /\ UNCHANGED <<prog, n, mi, upc, ui, out, exited, vOwner, chanVars, input, lockVars>>

WaitingThreadJoin == JoinUnwrapReturn("waiting_thread")

\* handle_thread: let v = vec![1, 2, 3];
HandleThreadLet ==
  /\ prog = "handle_thread" /\ ~exited
  /\ mpc = "start"
  /\ vOwner' = "main"
  /\ mpc' = "spawn"
  /\ UNCHANGED <<prog, n, mi, upc, ui, out, exited, handles, joined, chanVars, input, lockVars>>

\* Faulty variant: the closure is spawned but v stays with the driver.
HandleThreadSpawnNoMove ==
  /\ prog = "handle_thread" /\ ~exited
  /\ mpc = "spawn"
  /\ upc' = [upc EXCEPT ![1] = "show"]
  /\ handles' = <<1>>
  /\ mpc' = "join"
  /\ UNCHANGED <<prog, n, mi, ui, out, exited, joined, vOwner, chanVars, input, lockVars>>

\* let handle = thread::spawn(move || ..): v moves into the closure.
HandleThreadSpawn ==
  /\ prog = "handle_thread" /\ ~exited
  /\ mpc = "spawn"
  /\ vOwner' = "unit"
  /\ upc' = [upc EXCEPT ![1] = "show"]
  /\ handles' = <<1>>
  /\ mpc' = "join"
  /\ UNCHANGED <<prog, n, mi, ui, out, exited, joined, chanVars, input, lockVars>>

\* The closure prints v and ends, dropping v.
HandleThreadUnit ==
  /\ prog = "handle_thread" /\ ~exited
  /\ upc[1] = "show"
  /\ vOwner = "unit"
  /\ out' = Append(out, Line("vetor", <<1, 2, 3>>))
  /\ vOwner' = "dropped"
  /\ upc' = [upc EXCEPT ![1] = "done"]
  /\ UNCHANGED <<prog, n, mpc, mi, ui, exited, handles, joined, chanVars, input, lockVars>>

HandleThreadJoin == JoinUnwrapReturn("handle_thread")

\* When the main thread ends, every spawned thread still running is ended
\* with it, finished or not.
ProcessExit ==
  /\ ~exited
  /\ prog \notin {"channel_law", "guard_law"}
  /\ mpc \in {"returned", "panicked"}
  /\ exited' = TRUE
  /\ upc' = [u \in Units |->
               IF upc[u] \in {"unspawned", "done", "panicked"} THEN upc[u] ELSE "killed"]
  /\ UNCHANGED <<prog, n, mpc, mi, ui, out, thrVars, chanVars, input, lockVars>>

----------------------------------------------------------------------------
(* chapter162.rs                                                           *)

\* let (tx, rx) = mpsc::channel();
ChannelNew(p, next) ==
  /\ prog = p /\ ~exited
  /\ mpc = "start"
  /\ tx' = TRUE
  /\ rx' = TRUE
  /\ chan' = <<>>
  /\ mpc' = next
  /\ UNCHANGED <<prog, n, mi, upc, ui, out, exited, thrVars, val, sent, delivered,
                 received, recvErr, sendErr, input, lockVars>>

\* thread::spawn(move || ..): tx moves into the closure, the JoinHandle is
\* dropped at once.
ChannelSpawn(p, next) ==
  /\ prog = p /\ ~exited
  /\ mpc = "spawn"
  /\ upc' = [upc EXCEPT ![1] = "val"]
  /\ mpc' = next
  /\ UNCHANGED <<prog, n, mi, ui, out, exited, thrVars, chanVars, input, lockVars>>

\* let val = String::from("hi");
UnitVal(p) ==
  /\ prog = p /\ ~exited
  /\ upc[1] = "val"
  /\ val' = "hi"
  /\ upc' = [upc EXCEPT ![1] = "send"]
  /\ UNCHANGED <<prog, n, mpc, mi, ui, out, exited, thrVars, tx, rx, chan, sent,
                 delivered, received, recvErr, sendErr, input, lockVars>>

\* tx.send(val).unwrap(): on Err the closure panics and unwinding drops tx.
UnitSend(p) ==
  /\ prog = p /\ ~exited
  /\ upc[1] = "send"
  /\ IF SendFails(rx)
       THEN /\ sendErr' = TRUE
            /\ tx' = FALSE
            /\ upc' = [upc EXCEPT ![1] = "panicked"]
            /\ UNCHANGED <<chan, sent>>
       ELSE /\ chan' = Enqueue(chan, val)
            /\ sent' = Append(sent, val)
            /\ upc' = [upc EXCEPT ![1] = "sent"]
            /\ UNCHANGED <<sendErr, tx>>
  /\ UNCHANGED <<prog, n, mpc, mi, ui, out, exited, thrVars, rx, val, delivered,
                 received, recvErr, input, lockVars>>

\* The closure ends: tx is dropped.
UnitEnd(p) ==
  /\ prog = p /\ ~exited
  /\ upc[1] = "sent"
  /\ tx' = FALSE
  /\ upc' = [upc EXCEPT ![1] = "done"]
  /\ UNCHANGED <<prog, n, mpc, mi, ui, out, exited, thrVars, rx, chan, val, sent,
                 delivered, received, recvErr, sendErr, input, lockVars>>

\* The driver returns: rx is dropped, and with it whatever the buffer holds.
ChannelReturn(p) ==
  /\ prog = p /\ ~exited
  /\ mpc = "return"
  /\ rx' = FALSE
  /\ chan' = <<>>
  /\ mpc' = "returned"
  /\ UNCHANGED <<prog, n, mi, upc, ui, out, exited, thrVars, tx, val, sent, delivered,
                 received, recvErr, sendErr, input, lockVars>>

MoveChannelNew == ChannelNew("move_channel", "spawn")
MoveChannelSpawn == ChannelSpawn("move_channel", "return")
MoveChannelUnitVal == UnitVal("move_channel")
MoveChannelUnitSend == UnitSend("move_channel")
MoveChannelUnitEnd == UnitEnd("move_channel")
\* Faulty variant: move_channel returns only when the unit has ended.
MoveChannelReturnWaits == ChannelReturn("move_channel") /\ Finished(1)
MoveChannelReturn == ChannelReturn("move_channel")

RecoverChannelNew == ChannelNew("recover_channel", "spawn")
RecoverChannelSpawn == ChannelSpawn("recover_channel", "recv")
RecoverChannelUnitVal == UnitVal("recover_channel")
RecoverChannelUnitSend == UnitSend("recover_channel")
RecoverChannelUnitEnd == UnitEnd("recover_channel")

\* let received = rx.recv().unwrap(): on Err the driver panics.
RecoverChannelRecv ==
  /\ prog = "recover_channel" /\ ~exited
  /\ mpc = "recv"
  /\ RecvReady(chan, tx)
  /\ IF RecvOk(chan)
       THEN /\ received' = RecvMsg(chan)
            /\ delivered' = Append(delivered, RecvMsg(chan))
            /\ chan' = RecvRest(chan)
            /\ mpc' = "show"
            /\ UNCHANGED <<recvErr, rx>>
       ELSE /\ recvErr' = TRUE
            /\ rx' = FALSE
            /\ mpc' = "panicked"
            /\ UNCHANGED <<received, delivered, chan>>
  /\ UNCHANGED <<prog, n, mi, upc, ui, out, exited, thrVars, tx, val, sent, sendErr,
                 input, lockVars>>

\* println!("Got: {received}");
RecoverChannelShow ==
  /\ prog = "recover_channel" /\ ~exited
  /\ mpc = "show"
  /\ out' = Append(out, Line("Got", received))
  /\ mpc' = "return"
  /\ UNCHANGED <<prog, n, mi, upc, ui, exited, thrVars, chanVars, input, lockVars>>

RecoverChannelReturn == ChannelReturn("recover_channel")

----------------------------------------------------------------------------
(* The channel law: one Sender sends input[1], .., input[k] and is then    *)
(* dropped; one Receiver calls recv until it fails, and may be dropped at  *)
(* any moment.  ui counts the sends that returned Ok.                      *)

LawNew ==
  /\ prog = "channel_law"
  /\ mpc = "start"
  /\ tx' = TRUE
  /\ rx' = TRUE
  /\ chan' = <<>>
  /\ upc' = [upc EXCEPT ![1] = "send"]
  /\ mpc' = "recv"
  /\ UNCHANGED <<prog, n, mi, ui, out, exited, thrVars, val, sent, delivered,
                 received, recvErr, sendErr, input, lockVars>>

LawSend ==
  /\ prog = "channel_law"
  /\ upc[1] = "send"
  /\ ui < Len(input)
  /\ IF SendFails(rx)
       THEN /\ sendErr' = TRUE
            /\ upc' = [upc EXCEPT ![1] = "failed"]
            /\ UNCHANGED <<chan, sent, ui>>
       ELSE /\ chan' = Enqueue(chan, input[ui + 1])
            /\ sent' = Append(sent, input[ui + 1])
            /\ ui' = ui + 1
            /\ UNCHANGED <<sendErr, upc>>
  /\ UNCHANGED <<prog, n, mpc, mi, out, exited, thrVars, tx, rx, val, delivered,
                 received, recvErr, input, lockVars>>

LawDropTx ==
  /\ prog = "channel_law"
  /\ \/ upc[1] = "send" /\ ui = Len(input)
     \/ upc[1] = "failed"
  /\ tx' = FALSE
  /\ upc' = [upc EXCEPT ![1] = "done"]
  /\ UNCHANGED <<prog, n, mpc, mi, ui, out, exited, thrVars, rx, chan, val, sent,
                 delivered, received, recvErr, sendErr, input, lockVars>>

LawRecv ==
  /\ prog = "channel_law"
  /\ mpc = "recv"
  /\ RecvReady(chan, tx)
  /\ IF RecvOk(chan)
       THEN /\ received' = RecvMsg(chan)
            /\ delivered' = Append(delivered, RecvMsg(chan))
            /\ chan' = RecvRest(chan)
            /\ UNCHANGED <<recvErr, mpc>>
       ELSE /\ recvErr' = TRUE
            /\ mpc' = "closed"
            /\ UNCHANGED <<received, delivered, chan>>
  /\ UNCHANGED <<prog, n, mi, upc, ui, out, exited, thrVars, tx, rx, val, sent,
                 sendErr, input, lockVars>>

LawDropRx ==
  /\ prog = "channel_law"
  /\ mpc \in {"recv", "closed"}
  /\ rx' = FALSE
  /\ chan' = <<>>
  /\ mpc' = "returned"
  /\ UNCHANGED <<prog, n, mi, upc, ui, out, exited, thrVars, tx, val, sent, delivered,
                 received, recvErr, sendErr, input, lockVars>>

----------------------------------------------------------------------------
(* chapter163.rs                                                           *)

\* let m = Mutex::new(5);
CallMutexNew ==
  /\ prog = "call_mutex" /\ ~exited
  /\ mpc = "start"
  /\ counter' = MInit
  /\ mpc' = "lock"
  /\ UNCHANGED <<prog, n, mi, upc, ui, out, exited, thrVars, chanVars, input,
                 locked, poisoned, strong, num, result>>

\* let mut num = m.lock().unwrap();
CallMutexLock ==
  /\ prog = "call_mutex" /\ ~exited
  /\ mpc = "lock"
  /\ LockReady(locked)
  /\ IF LockErr(poisoned)
       THEN /\ mpc' = "panicked"
            /\ locked' = locked
       ELSE /\ mpc' = "set"
            /\ locked' = GuardHeld
  /\ UNCHANGED <<prog, n, mi, upc, ui, out, exited, thrVars, chanVars, input,
                 poisoned, counter, strong, num, result>>

\* *num = 6;
CallMutexSet ==
  /\ prog = "call_mutex" /\ ~exited
  /\ mpc = "set"
  /\ counter' = MSet
  /\ mpc' = "unlock"
  /\ UNCHANGED <<prog, n, mi, upc, ui, out, exited, thrVars, chanVars, input,
                 locked, poisoned, strong, num, result>>

\* Faulty variant: the inner block ends with the guard still alive.
CallMutexKeepsGuard ==
  /\ prog = "call_mutex" /\ ~exited
  /\ mpc = "unlock"
  /\ mpc' = "show"
  /\ UNCHANGED <<prog, n, mi, upc, ui, out, exited, thrVars, chanVars, input,
                 lockVars>>

\* The inner block ends: the guard num is dropped.
CallMutexUnlock ==
  /\ prog = "call_mutex" /\ ~exited
  /\ mpc = "unlock"
  /\ locked' = FALSE
  /\ mpc' = "show"
  /\ UNCHANGED <<prog, n, mi, upc, ui, out, exited, thrVars, chanVars, input,
                 poisoned, counter, strong, num, result>>

\* println!("m = {:?}", m); and the function returns.
CallMutexShow ==
  /\ prog = "call_mutex" /\ ~exited
  /\ mpc = "show"
  /\ out' = Append(out, Line("m", [data |-> counter, poisoned |-> poisoned,
                                   locked |-> locked]))
  /\ mpc' = "returned"
  /\ UNCHANGED <<prog, n, mi, upc, ui, exited, thrVars, chanVars, input, lockVars>>

\* let counter = Arc::new(Mutex::new(0)); let mut handles = vec![];
AtomRefNew ==
  /\ prog = "atom_ref" /\ ~exited
  /\ mpc = "start"
  /\ counter' = 0
  /\ strong' = 1
  /\ handles' = <<>>
  /\ mi' = 0
  /\ mpc' = "spawn"
  /\ UNCHANGED <<prog, n, upc, ui, out, exited, joined, vOwner, chanVars, input,
                 locked, poisoned, num, result>>

\* One iteration of `for _ in 0..10`: clone the Arc, spawn the unit that
\* owns the clone, push its handle; after the last one, go on to the joins.
AtomRefSpawn ==
  /\ prog = "atom_ref" /\ ~exited
  /\ mpc = "spawn"
  /\ IF mi < n
       THEN /\ strong' = strong + 1
            /\ upc' = [upc EXCEPT ![mi + 1] = "lock"]
            /\ handles' = Append(handles, mi + 1)
            /\ mi' = mi + 1
            /\ mpc' = mpc
       ELSE /\ mpc' = "join"
            /\ UNCHANGED <<strong, upc, handles, mi>>
  /\ UNCHANGED <<prog, n, ui, out, exited, joined, vOwner, chanVars, input,
                 locked, poisoned, counter, num, result>>

\* let mut num = counter.lock().unwrap(); a poisoned lock makes the unit
\* panic, and unwinding drops its Arc clone.
AtomRefUnitLock(u) ==
  /\ prog = "atom_ref" /\ ~exited
  /\ upc[u] = "lock"
  /\ LockReady(locked)
  /\ IF LockErr(poisoned)
       THEN /\ upc' = [upc EXCEPT ![u] = "panicked"]
            /\ strong' = strong - 1
            /\ locked' = locked
       ELSE /\ upc' = [upc EXCEPT ![u] = "read"]
            /\ strong' = strong
            /\ locked' = GuardHeld
  /\ UNCHANGED <<prog, n, mpc, mi, ui, out, exited, thrVars, chanVars, input,
                 poisoned, counter, num, result>>

\* *num += 1: the load ...
AtomRefUnitRead(u) ==
  /\ prog = "atom_ref" /\ ~exited
  /\ upc[u] = "read"
  /\ num' = [num EXCEPT ![u] = counter]
  /\ upc' = [upc EXCEPT ![u] = "write"]
  /\ UNCHANGED <<prog, n, mpc, mi, ui, out, exited, thrVars, chanVars, input,
                 locked, poisoned, counter, strong, result>>

\* ... and the store.
AtomRefUnitWrite(u) ==
  /\ prog = "atom_ref" /\ ~exited
  /\ upc[u] = "write"
  /\ counter' = Incr(num[u])
  /\ upc' = [upc EXCEPT ![u] = "unlock"]
  /\ UNCHANGED <<prog, n, mpc, mi, ui, out, exited, thrVars, chanVars, input,
                 locked, poisoned, strong, num, result>>

\* Faulty variant: the closure ends without releasing the lock.
AtomRefUnitEndKeepsLock(u) ==
  /\ prog = "atom_ref" /\ ~exited
  /\ upc[u] = "unlock"
  /\ num' = [num EXCEPT ![u] = 0]
  /\ strong' = strong - 1
  /\ upc' = [upc EXCEPT ![u] = "done"]
  /\ UNCHANGED <<prog, n, mpc, mi, ui, out, exited, thrVars, chanVars, input,
                 locked, poisoned, counter, result>>

\* Faulty variant: the closure ends without dropping its Arc clone.
AtomRefUnitEndKeepsArc(u) ==
  /\ prog = "atom_ref" /\ ~exited
  /\ upc[u] = "unlock"
  /\ locked' = FALSE
  /\ num' = [num EXCEPT ![u] = 0]
  /\ upc' = [upc EXCEPT ![u] = "done"]
  /\ UNCHANGED <<prog, n, mpc, mi, ui, out, exited, thrVars, chanVars, input,
                 poisoned, counter, strong, result>>

\* The closure ends: the guard num is dropped, then the Arc clone counter.
AtomRefUnitEnd(u) ==
  /\ prog = "atom_ref" /\ ~exited
  /\ upc[u] = "unlock"
  /\ locked' = FALSE
  /\ num' = [num EXCEPT ![u] = 0]
  /\ strong' = strong - 1
  /\ upc' = [upc EXCEPT ![u] = "done"]
  /\ UNCHANGED <<prog, n, mpc, mi, ui, out, exited, thrVars, chanVars, input,
                 poisoned, counter, result>>

\* One iteration of `for handle in handles { handle.join().unwrap(); }`:
\* on Err the driver panics, dropping the handles left and its Arc.
AtomRefJoin ==
  /\ prog = "atom_ref" /\ ~exited
  /\ mpc = "join"
  /\ handles # <<>>
  /\ JoinReady(Head(handles))
  /\ IF JoinOk(Head(handles))
       THEN /\ joined' = joined \cup {Head(handles)}
            /\ handles' = Tail(handles)
            /\ UNCHANGED <<mpc, strong>>
       ELSE /\ mpc' = "panicked"
            /\ handles' = <<>>
            /\ strong' = strong - 1
            /\ joined' = joined
  /\ UNCHANGED <<prog, n, mi, upc, ui, out, exited, vOwner, chanVars, input,
                 locked, poisoned, counter, num, result>>

\* counter.lock().unwrap() of the last statement, after the join loop.
AtomRefFinalLock ==
  /\ prog = "atom_ref" /\ ~exited
  /\ mpc = "join"
  /\ handles = <<>>
  /\ LockReady(locked)
  /\ IF LockErr(poisoned)
       THEN /\ mpc' = "panicked"
            /\ strong' = strong - 1
            /\ locked' = locked
       ELSE /\ mpc' = "result"
            /\ strong' = strong
            /\ locked' = GuardHeld
  /\ UNCHANGED <<prog, n, mi, upc, ui, out, exited, thrVars, chanVars, input,
                 poisoned, counter, num, result>>

\* println!("Result: {}", *guard); the temporary guard is dropped at the end
\* of the statement.
AtomRefResult ==
  /\ prog = "atom_ref" /\ ~exited
  /\ mpc = "result"
  /\ result' = counter
  /\ out' = Append(out, Line("Result", counter))
  /\ locked' = FALSE
  /\ mpc' = "return"
  /\ UNCHANGED <<prog, n, mi, upc, ui, exited, thrVars, chanVars, input,
                 poisoned, counter, strong, num>>

\* atom_ref returns: the driver's Arc is dropped.
AtomRefReturn ==
  /\ prog = "atom_ref" /\ ~exited
  /\ mpc = "return"
  /\ strong' = strong - 1
  /\ mpc' = "returned"
  /\ UNCHANGED <<prog, n, mi, upc, ui, out, exited, thrVars, chanVars, input,
                 locked, poisoned, counter, num, result>>

----------------------------------------------------------------------------
(* The guard law: n units each lock the counter, and inside the critical   *)
(* section either increment it or fail; the guard is dropped on both       *)
(* paths, and dropping it while failing poisons the Mutex.  The driver     *)
(* locks once more when every unit has ended.                              *)

GuardLawNew ==
  /\ prog = "guard_law"
  /\ mpc = "start"
  /\ counter' = 0
  /\ upc' = [u \in Units |-> IF u <= n THEN "lock" ELSE "unspawned"]
  /\ mpc' = "lock"
  /\ UNCHANGED <<prog, n, mi, ui, out, exited, thrVars, chanVars, input,
                 locked, poisoned, strong, num, result>>

GuardLawLock(u) ==
  /\ prog = "guard_law"
  /\ upc[u] = "lock"
  /\ LockReady(locked)
  /\ IF LockErr(poisoned)
       THEN /\ upc' = [upc EXCEPT ![u] = "panicked"]
            /\ locked' = locked
       ELSE /\ upc' = [upc EXCEPT ![u] = "crit"]
            /\ locked' = GuardHeld
  /\ UNCHANGED <<prog, n, mpc, mi, ui, out, exited, thrVars, chanVars, input,
                 poisoned, counter, strong, num, result>>

GuardLawCrit(u) ==
  /\ prog = "guard_law"
  /\ upc[u] = "crit"
  /\ \E fails \in BOOLEAN :
       IF fails
         THEN /\ upc' = [upc EXCEPT ![u] = "unwind"]
              /\ counter' = counter
         ELSE /\ upc' = [upc EXCEPT ![u] = "unlock"]
              /\ counter' = Incr(counter)
  /\ UNCHANGED <<prog, n, mpc, mi, ui, out, exited, thrVars, chanVars, input,
                 locked, poisoned, strong, num, result>>

GuardLawDrop(u) ==
  /\ prog = "guard_law"
  /\ upc[u] \in {"unlock", "unwind"}
  /\ locked' = FALSE
  /\ poisoned' = (poisoned \/ upc[u] = "unwind")
  /\ upc' = [upc EXCEPT ![u] = IF upc[u] = "unwind" THEN "panicked" ELSE "done"]
  /\ UNCHANGED <<prog, n, mpc, mi, ui, out, exited, thrVars, chanVars, input,
                 counter, strong, num, result>>

GuardLawFinal ==
  /\ prog = "guard_law"
  /\ mpc = "lock"
  /\ \A u \in 1..n : Finished(u)
  /\ LockReady(locked)
  /\ IF LockErr(poisoned)
       THEN /\ mpc' = "panicked"
            /\ result' = result
       ELSE /\ mpc' = "returned"
            /\ result' = counter
  /\ UNCHANGED <<prog, n, mi, upc, ui, out, exited, thrVars, chanVars, input,
                 locked, poisoned, counter, strong, num>>

----------------------------------------------------------------------------
\* Steps of the driver.
DriverNext ==
  \/ SpawnThreadSpawn \/ SpawnThreadMainPrint \/ SpawnThreadMainSleep
  \/ WaitingThreadSpawn \/ WaitingThreadMainPrint \/ WaitingThreadMainSleep
  \/ WaitingThreadJoin
  \/ HandleThreadLet \/ HandleThreadSpawn \/ HandleThreadJoin
  \/ MoveChannelNew \/ MoveChannelSpawn \/ MoveChannelReturn
  \/ RecoverChannelNew \/ RecoverChannelSpawn \/ RecoverChannelRecv
  \/ RecoverChannelShow \/ RecoverChannelReturn
  \/ CallMutexNew \/ CallMutexLock \/ CallMutexSet \/ CallMutexUnlock
  \/ CallMutexShow
  \/ AtomRefNew \/ AtomRefSpawn \/ AtomRefJoin \/ AtomRefFinalLock
  \/ AtomRefResult \/ AtomRefReturn

\* Steps of the spawned units.
UnitsNext ==
  \/ SpawnThreadUnitPrint \/ SpawnThreadUnitSleep
  \/ WaitingThreadUnitPrint \/ WaitingThreadUnitSleep
  \/ HandleThreadUnit
  \/ MoveChannelUnitVal \/ MoveChannelUnitSend \/ MoveChannelUnitEnd
  \/ RecoverChannelUnitVal \/ RecoverChannelUnitSend \/ RecoverChannelUnitEnd
  \/ \E u \in Units : AtomRefUnitLock(u)
  \/ \E u \in Units : AtomRefUnitRead(u)
  \/ \E u \in Units : AtomRefUnitWrite(u)
  \/ \E u \in Units : AtomRefUnitEnd(u)

\* Steps of the channel law's Sender and Receiver.
LawNext == LawNew \/ LawSend \/ LawDropTx \/ LawRecv \/ LawDropRx

\* Steps of the guard law's units and driver.
GuardLawNext ==
  \/ GuardLawNew \/ GuardLawFinal
  \/ \E u \in Units : GuardLawLock(u)
  \/ \E u \in Units : GuardLawCrit(u)
  \/ \E u \in Units : GuardLawDrop(u)

Next == DriverNext \/ UnitsNext \/ LawNext \/ GuardLawNext \/ ProcessExit

Spec == Init /\ [][Next]_vars

\* Every thread that can run is eventually run; when the process exits and
\* when the law's Receiver is dropped are not forced.
FairSpec == Spec /\ WF_vars(DriverNext) /\ WF_vars(UnitsNext)
                 /\ WF_vars(LawNew \/ LawSend \/ LawDropTx \/ LawRecv)
                 /\ WF_vars(GuardLawNext)

----------------------------------------------------------------------------
(* Properties                                                              *)

IsPrefix(s, t) == Len(s) <= Len(t) /\ s = SubSeq(t, 1, Len(s))
Spawned(u) == upc[u] # "unspawned"
Functions == Programs \ {"channel_law", "guard_law"}
\* Units of atom_ref that hold a guard, and whether its driver holds one.
Holders == {u \in Units : upc[u] \in {"read", "write", "unlock"}}
DriverHolds == mpc = "result"
\* The lines of `out` printed by the spawned closure.
SpawnedLines == SelectSeq(out, LAMBDA l : l.tag = "spawned")

\* C1: no lost updates.  In atom_ref, once the driver has joined all n units
\* the counter is 0 + n in every interleaving, the driver reads n, and the
\* line printed is "Result: n" ("Result: 10" for the 10 units of the code).
NoLostUpdates ==
  prog = "atom_ref" =>
    /\ (mpc = "join" /\ handles = <<>>) \/ mpc \in {"result", "return", "returned"}
         => counter = n
    /\ mpc \in {"return", "returned"}
         => /\ result = n
            /\ out = <<Line("Result", n)>>
            /\ n = NumThreads => out = <<Line("Result", 10)>>
    /\ mpc # "panicked"

NoLostUpdatesWitness ==
  /\ prog = "atom_ref" /\ n = NumThreads
  /\ mpc = "returned" /\ result = 10 /\ joined = Units

\* C2: mutual exclusion.  In atom_ref at most one of the units and the driver
\* holds the counter's lock, the lock flag is set while it is held, and
\* between the load and the store of `*num += 1` nobody else changes the
\* counter.
MutualExclusion ==
  prog = "atom_ref" =>
    /\ Cardinality(Holders) + (IF DriverHolds THEN 1 ELSE 0) <= 1
    /\ (Holders # {} \/ DriverHolds) <=> locked
    /\ \A u \in Units :
         /\ upc[u] = "write" => counter = num[u]
         /\ upc[u] = "unlock" => counter = num[u] + 1

MutualExclusionWitness ==
  /\ prog = "atom_ref"
  /\ \E u, w \in Units : u # w /\ upc[u] = "write" /\ upc[w] = "lock"
                         /\ counter > 0

\* C3: in recover_channel the driver's recv never fails and never returns
\* before the spawned unit's send: once recv has returned, the unit has sent
\* "hi", and "hi" is what was received and printed.
RecoverReceivesHi ==
  prog = "recover_channel" =>
    /\ mpc # "panicked" /\ ~recvErr
    /\ received # "none" => sent = <<"hi">>
    /\ mpc \in {"show", "return", "returned"}
         => /\ received = "hi"
            /\ upc[1] \in {"sent", "done", "killed"}
    /\ mpc \in {"return", "returned"} => out = <<Line("Got", "hi")>>

RecoverReceivesHiWitness ==
  /\ prog = "recover_channel"
  /\ mpc = "returned" /\ received = "hi" /\ upc[1] = "sent"

\* C4: join blocks until the joined unit has ended.  In waiting_thread and
\* handle_thread the driver is past handle.join() only when the unit has
\* ended, and when waiting_thread has returned the spawned closure has
\* printed all its 9 lines.
JoinBlocks ==
  prog \in {"waiting_thread", "handle_thread"} /\ mpc \in {"returned", "panicked"} =>
    /\ Finished(1)
    /\ joined = {1}
    /\ prog = "waiting_thread"
         => /\ ui = SpawnedEnd
            /\ SpawnedLines = [i \in 1..9 |-> Line("spawned", i)]
    /\ prog = "handle_thread" => out = <<Line("vetor", <<1, 2, 3>>)>>

JoinBlocksWitness ==
  /\ prog = "waiting_thread" /\ mpc = "returned"
  /\ Len(out) = 13
  /\ out[12] = Line("spawned", 8) /\ out[13] = Line("spawned", 9)

\* C5: FIFO law.  With one Sender and one Receiver, the messages received
\* are the messages sent, in send order: after j receives the Receiver holds
\* m1, .., mj, and when all k sends succeeded and recv has drained the
\* channel it holds exactly m1, .., mk (k <= MaxMsgs; recover_channel is the
\* case k = 1 with m1 = "hi").
FifoLaw ==
  /\ prog = "channel_law" =>
       /\ IsPrefix(delivered, input)
       /\ mpc = "closed" => delivered = input
       /\ delivered # <<>> => received = delivered[Len(delivered)]
  /\ prog = "recover_channel" /\ delivered # <<>> => delivered = <<"hi">>

FifoLawWitness ==
  /\ prog = "channel_law"
  /\ Len(input) = MaxMsgs /\ input[1] # input[2]
  /\ ui = Len(input) /\ delivered = input /\ mpc = "recv"

\* C6 as stated: every message sent is delivered exactly once, in every
\* channel the code creates (move_channel included): once the Receiver is
\* gone, what was delivered is exactly what was sent.
ExactlyOnceDelivery ==
  prog \in {"move_channel", "recover_channel"} /\ mpc = "returned"
    => delivered = sent

\* C6 amended: a message sent is delivered at most once and in send order
\* (what was delivered is a prefix of what was sent, and while the Receiver
\* is alive the rest is still buffered); in recover_channel the one message
\* sent is delivered exactly once; in move_channel no message is ever
\* delivered, whether or not its send succeeded.
AtMostOnceDelivery ==
  /\ IsPrefix(delivered, sent)
  /\ rx => sent = delivered \o chan
  /\ ~rx => chan = <<>>
  /\ prog = "recover_channel" /\ mpc \in {"show", "return", "returned"}
       => delivered = <<"hi">> /\ sent = <<"hi">>
  /\ prog = "move_channel" => delivered = <<>>

AtMostOnceDeliveryWitness ==
  /\ prog = "move_channel" /\ mpc = "returned"
  /\ sent = <<"hi">> /\ delivered = <<>> /\ upc[1] = "done"

\* A recv is pending on a channel that is empty and whose Senders are gone.
ClosedEmptyPending(p) == prog = p /\ mpc = "recv" /\ rx /\ ~tx /\ chan = <<>>

\* C7: recv does not block on a closed channel.  When every Sender is
\* dropped and the buffer is empty, a pending recv can return, and it
\* returns RecvError without delivering anything; and in recover_channel,
\* under fair scheduling, the driver's recv always eventually returns.
RecvNeverBlocksClosed ==
  /\ [](ClosedEmptyPending("channel_law") => ENABLED LawRecv)
  /\ [](ClosedEmptyPending("recover_channel") => ENABLED RecoverChannelRecv)
  /\ [][(LawRecv \/ RecoverChannelRecv) /\ ~tx /\ chan = <<>>
          => recvErr' /\ delivered' = delivered]_vars
  /\ (prog = "recover_channel" /\ mpc = "recv") ~> (mpc \in {"show", "panicked"})

RecvNeverBlocksClosedWitness ==
  /\ prog = "channel_law" /\ mpc = "closed"
  /\ recvErr /\ ~tx /\ sent = <<>> /\ delivered = <<>>

\* A step of tx.send(..) of any Sender.
SendStep == MoveChannelUnitSend \/ RecoverChannelUnitSend \/ LawSend

\* C8: a send after the Receiver was dropped fails with SendError and
\* enqueues nothing; in move_channel and recover_channel the unwrap then
\* panics the spawned unit.
SendAfterDropFails ==
  [][SendStep /\ ~rx
       => /\ sendErr'
          /\ chan' = chan /\ sent' = sent
          /\ prog # "channel_law" => upc'[1] = "panicked"]_vars

SendAfterDropFailsWitness ==
  /\ prog = "move_channel" /\ mpc = "returned"
  /\ sendErr /\ upc[1] = "panicked" /\ sent = <<>> /\ chan = <<>>

\* C9 as stated: in every driver function, every unit the driver spawned has
\* been joined when the driver has returned.
AllJoinedBeforeReturn ==
  prog \in Functions /\ mpc = "returned"
    => \A u \in Units : Spawned(u) => u \in joined

\* C9 amended: in waiting_thread, handle_thread and atom_ref every unit the
\* driver spawned has ended and been joined before the driver reads its final
\* state or returns; spawn_thread, move_channel and recover_channel drop the
\* JoinHandle and never join.
JoinedWhereJoinIsCalled ==
  /\ prog \in {"waiting_thread", "handle_thread", "atom_ref"}
       /\ mpc \in {"result", "return", "returned"}
       => /\ \A u \in Units : Spawned(u) => u \in joined /\ Finished(u)
          /\ prog = "atom_ref" => joined = 1..n
          /\ prog # "atom_ref" => joined = {1}
  /\ prog \in {"spawn_thread", "move_channel", "recover_channel"}
       => joined = {} /\ handles = <<>>

JoinedWhereJoinIsCalledWitness ==
  /\ prog = "atom_ref" /\ n = NumThreads
  /\ mpc = "result" /\ joined = Units /\ handles = <<>>

\* C10: no failure is swallowed: no driver function has returned normally
\* in a run in which one of its spawned units panicked.
NoSwallowedFailure ==
  prog \in Functions /\ (\E u \in Units : upc[u] = "panicked")
    => mpc # "returned"


\* Units of the guard law that hold a guard.
LawHolders == {u \in Units : upc[u] \in {"crit", "unlock", "unwind"}}

\* C11: the lock is released on every exit path.  When a holder fails inside
\* its critical section the lock is released all the same and the Mutex is
\* marked poisoned, so under fair scheduling nobody blocks forever: every
\* unit ends and the driver's later lock returns, and a lock on the poisoned
\* Mutex fails (LockPoisoned) instead of succeeding or waiting.  In atom_ref
\* itself no unit can fail while holding the lock, so its Mutex is never
\* poisoned.
LockReleasedOnPanic ==
  /\ [](prog = "guard_law" =>
          /\ locked <=> LawHolders # {}
          /\ Cardinality(LawHolders) <= 1
          /\ (\E u \in Units : upc[u] = "panicked") <=> poisoned
          /\ mpc = "returned" => ~poisoned /\ result = n
          /\ mpc = "panicked" => poisoned /\ ~locked)
  /\ [](prog = "atom_ref" => ~poisoned)
  /\ (prog = "guard_law") ~>
       (mpc \in {"returned", "panicked"} /\ ~locked /\ \A u \in 1..n : Finished(u))

LockReleasedOnPanicWitness ==
  /\ prog = "guard_law" /\ n = MaxLawUnits
  /\ mpc = "panicked" /\ poisoned /\ ~locked
  /\ counter = 1 /\ \E u \in Units : upc[u] = "done"


\* Handles on the counter that are alive in atom_ref: the driver's original
\* from Arc::new to its return, and the clone of every unit that has been
\* spawned and has not ended.
LiveHandles ==
  (IF mpc \in {"spawn", "join", "result", "return"} THEN 1 ELSE 0)
    + Cardinality({u \in Units : upc[u] \in {"lock", "read", "write", "unlock"}})

\* C12: shared ownership by reference count.  In atom_ref the strong count
\* is the number of live handles; from Arc::new to the driver's return it is
\* between 1 and 11; a unit that has ended has dropped its clone; and the
\* count is 0 (the storage destroyed) only when the driver has returned,
\* after the final read.
ArcCountsHandles ==
  prog = "atom_ref" =>
    /\ strong = LiveHandles
    /\ mpc \in {"spawn", "join", "result", "return"} => strong >= 1 /\ strong <= 11
    /\ strong = 0 /\ mpc # "start"
         => mpc = "returned" /\ result = n /\ out = <<Line("Result", n)>>
    /\ mpc = "returned" => strong = 0

ArcCountsHandlesWitness ==
  /\ prog = "atom_ref" /\ mpc = "join"
  /\ strong = 11 /\ \A u \in Units : upc[u] = "lock"


\* handle_thread: the driver can use v while it owns it; the closure uses v
\* from its start until it has printed it.
MainCanAccessV == vOwner = "main"
UnitCanAccessV == upc[1] = "show"

\* C13: ownership transfer on spawn.  In handle_thread, from the spawn on v
\* belongs to the spawned unit alone (and is dropped with it): in no state
\* can both the driver and the unit access v.
VMovedIntoUnit ==
  prog = "handle_thread" =>
    /\ ~(MainCanAccessV /\ UnitCanAccessV)
    /\ Spawned(1) => vOwner \in {"unit", "dropped"}
    /\ MainCanAccessV <=> mpc = "spawn"
    /\ UnitCanAccessV <=> vOwner = "unit"
    /\ mpc \in {"returned", "panicked"} => vOwner = "dropped"

VMovedIntoUnitWitness ==
  /\ prog = "handle_thread" /\ mpc = "join"
  /\ upc[1] = "show" /\ vOwner = "unit" /\ handles = <<1>>


\* C14: without join the spawned unit is not awaited.  In spawn_thread no
\* step of the driver, its return included, waits for the unit; once the
\* driver has returned the process can end, and then the unit runs no
\* further, finished or not: a run that ends with fewer than 9 spawned lines
\* printed is reachable.
UnitNotAwaited ==
  prog = "spawn_thread" =>
    /\ mpc = "loop" /\ ~exited => ENABLED SpawnThreadMainPrint
    /\ mpc = "returned" /\ ~exited => ENABLED ProcessExit
    /\ exited => /\ upc[1] \in {"done", "killed"}
                 /\ ~ENABLED (SpawnThreadUnitPrint \/ SpawnThreadUnitSleep)
    /\ upc[1] = "killed" => exited
    /\ Len(SpawnedLines) <= 9
    /\ SpawnedLines = [i \in 1..Len(SpawnedLines) |-> Line("spawned", i)]
    /\ joined = {}

UnitNotAwaitedWitness ==
  /\ prog = "spawn_thread" /\ mpc = "returned" /\ exited
  /\ upc[1] = "killed"
  /\ Len(SpawnedLines) = 3 /\ Len(out) = 7


\* The lines of `out` printed by the driver's loop.
MainLines == SelectSeq(out, LAMBDA l : l.tag = "main")

\* C15: in waiting_thread each thread prints its own lines in increasing i
\* without gaps or repeats, the closure for i = 1..9 and the driver for
\* i = 1..4 (all of them once the function has returned), and nothing
\* orders the lines of one thread against the other's: whenever a thread is
\* at a step of its loop it can take it, whatever the other's position, so
\* every merge of the two sequences can be printed.
LinesInOrderPerThread ==
  prog = "waiting_thread" =>
    /\ SpawnedLines = [i \in 1..Len(SpawnedLines) |-> Line("spawned", i)]
    /\ MainLines = [i \in 1..Len(MainLines) |-> Line("main", i)]
    /\ Len(SpawnedLines) <= 9 /\ Len(MainLines) <= 4
    /\ Len(out) = Len(SpawnedLines) + Len(MainLines)
    /\ mpc = "returned" => Len(SpawnedLines) = 9 /\ Len(MainLines) = 4
    /\ ~exited =>
         /\ upc[1] = "loop" => ENABLED WaitingThreadUnitPrint
         /\ upc[1] = "sleep" => ENABLED WaitingThreadUnitSleep
         /\ mpc = "loop" => ENABLED WaitingThreadMainPrint
         /\ mpc = "sleep" => ENABLED WaitingThreadMainSleep

LinesInOrderPerThreadWitness ==
  /\ prog = "waiting_thread" /\ mpc = "returned"
  /\ out = <<Line("spawned", 1), Line("main", 1), Line("main", 2),
             Line("spawned", 2), Line("spawned", 3), Line("spawned", 4),
             Line("main", 3), Line("spawned", 5), Line("spawned", 6),
             Line("spawned", 7), Line("spawned", 8), Line("main", 4),
             Line("spawned", 9)>>


\* C16: scoped lock release in call_mutex.  The lock is held exactly inside
\* the inner block; at the print that follows it the Mutex is unlocked, not
\* poisoned, and holds 6, the value having changed once, from 5 to 6.
ScopedLockRelease ==
  prog = "call_mutex" =>
    /\ locked <=> mpc \in {"set", "unlock"}
    /\ ~poisoned /\ mpc # "panicked"
    /\ mpc \in {"lock", "set"} => counter = 5
    /\ mpc \in {"unlock", "show", "returned"} => counter = 6
    /\ mpc = "returned"
         => out = <<Line("m", [data |-> 6, poisoned |-> FALSE, locked |-> FALSE])>>

ScopedLockReleaseWitness ==
  /\ prog = "call_mutex" /\ mpc = "show"
  /\ ~locked /\ ~poisoned /\ counter = 6


\* C17: atom_ref is deadlock-free and terminates.  Under fair scheduling
\* every spawned unit acquires the lock, increments and ends, every join
\* returns and the driver returns; and when the joins are over nobody holds
\* or can still request the lock, so the driver's final lock does not wait.
AtomRefTerminates ==
  /\ (prog = "atom_ref") ~>
       (mpc = "returned" /\ joined = 1..n /\ counter = n
          /\ \A u \in 1..n : upc[u] = "done")
  /\ [](prog = "atom_ref" /\ mpc = "join" /\ handles = <<>> /\ ~exited
          => /\ ~locked
             /\ \A u \in Units : upc[u] \in {"unspawned", "done"}
             /\ ENABLED AtomRefFinalLock)

AtomRefTerminatesWitness ==
  /\ prog = "atom_ref" /\ n = NumThreads
  /\ mpc = "result" /\ locked /\ counter = 10
  /\ \A u \in Units : upc[u] = "done"


\* C18: move_channel races the driver's return, which drops rx, against the
\* unit's send.  While both are pending either can come first; if the send
\* comes first it succeeds and the message is buffered, then discarded with
\* rx; if the return comes first the send fails with SendError and the unit
\* panics.  In both cases the message is never received.
SendRacesWithReturn ==
  prog = "move_channel" =>
    /\ mpc = "return" /\ upc[1] = "send" /\ ~exited
         => ENABLED MoveChannelReturn /\ ENABLED MoveChannelUnitSend
    /\ upc[1] \in {"sent", "done"} => sent = <<"hi">> /\ ~sendErr
    /\ upc[1] = "panicked" <=> sendErr
    /\ sendErr => sent = <<>> /\ mpc = "returned"
    /\ chan = (IF rx /\ sent # <<>> THEN <<"hi">> ELSE <<>>)
    /\ delivered = <<>> /\ received = "none" /\ ~recvErr /\ out = <<>>

SendRacesWithReturnWitness ==
  /\ prog = "move_channel" /\ exited
  /\ upc[1] = "done" /\ sent = <<"hi">> /\ ~rx /\ chan = <<>> /\ received = "none"

=============================================================================
